---- MODULE Spec2Model ----
(***************************************************************************)
(* Model of asteroid/losses/pit_wrapper.py: PITLossWrapper, the            *)
(* permutation / partition search behind permutation-invariant training.   *)
(*                                                                         *)
(* Tensors are nested sequences: a pairwise loss matrix is a sequence      *)
(* (batch) of sequences (rows) of sequences (columns) of naturals.  Python *)
(* source indices are 0-based and are kept 0-based as VALUES (a            *)
(* permutation is a sequence over 0..n-1); TLA+ sequence POSITIONS are     *)
(* 1-based, so x[k] of the source is x[k+1] here.  A mean is kept as the   *)
(* exact fraction [num, den] (the source computes in floating point; the   *)
(* model does not model rounding).                                         *)
(***************************************************************************)
EXTENDS Naturals, Integers, Sequences, FiniteSets, TLC

VARIABLES
    wrapper,        \* the PITLossWrapper instance: its fields, or NoWrapper
    est_targets,    \* argument est_targets  [batch][source] of samples
    targets,        \* argument targets      [batch][source] of samples
    pw_losses,      \* argument pair_wise_losses of the static search methods
    op,             \* the call that has run ("idle" before any)
    search,         \* what the permutation search returned
    ret,            \* what forward / the partition engines / get_pw_losses returned
    calls           \* the loss callback's invocations, in order

vars == <<wrapper, est_targets, targets, pw_losses, op, search, ret, calls>>

(***************************************************************************)
(* Bounds of the model.                                                    *)
(***************************************************************************)
MaxBatch == 2       \* batch rows
MaxLoss == 1        \* entries of an arbitrary pairwise matrix are 0..MaxLoss
MaxCells == 9       \* batch * n_src * n_src of a fully arbitrary pairwise matrix
MaxLow == 4         \* entries below MaxLoss in a larger pairwise matrix
MaxSrc == 4         \* sources of est_targets and of targets
MaxSig == 1         \* samples of a source signal are 0..MaxSig
MaxSamples == 6     \* batch * (n_est + n_targets) of one call
MaxDelta == 2        \* a perturbation of one matrix entry is 1..MaxDelta
MaxGradCells == 16   \* batch * n_src * n_src of a perturbed pairwise matrix
MaxMix == 2          \* mixtures handed to a partition engine
MaxPartEst == 4      \* batch * n_est of one call of a partition engine
MaxPartTgt == 4      \* batch * n_mixtures of one call of a partition engine
MaxReorder == 4      \* batch * n_src of one call with as many estimates as targets
MaxGradLow == 2      \* entries below MaxLoss in a perturbed pairwise matrix
MaxGarbage == 2     \* batch * n_targets * (n_targets - n_est), the entries of
                    \* the pairwise matrix that no estimate fills

(***************************************************************************)
(* Program constants.                                                      *)
(***************************************************************************)
FactorialMax == 3   \* find_best_perm: "n_src <= 3"
SrcCeiling == 10    \* forward: "assert n_src < 10"

(***************************************************************************)
(* Arithmetic helpers.                                                     *)
(***************************************************************************)
RECURSIVE SumSeq(_)
SumSeq(s) == IF Len(s) = 0 THEN 0 ELSE Head(s) + SumSeq(Tail(s))

RECURSIVE MaxSeq(_)
MaxSeq(s) == IF Len(s) = 1 THEN s[1]
             ELSE LET m == MaxSeq(Tail(s)) IN IF s[1] >= m THEN s[1] ELSE m

\* A sequence built by a function constructor, evaluated once into a tuple
Strict(s) == s \o <<>>

Frac(n, d) == [num |-> n, den |-> d]
FracLess(a, b) == a.num * b.den < b.num * a.den
FracEq(a, b) == a.num * b.den = b.num * a.den

\* torch.mean over a sequence of fractions that share one denominator
MeanOfFracs(s) == Frac(SumSeq(Strict([i \in 1..Len(s) |-> s[i].num])), s[1].den * Len(s))

RECURSIVE Concat(_)
Concat(ss) == IF Len(ss) = 0 THEN <<>> ELSE Head(ss) \o Concat(Tail(ss))

Remove(s, i) == Strict([k \in 1..(Len(s) - 1) |-> IF k < i THEN s[k] ELSE s[k + 1]])

Range(s) == {s[i] : i \in 1..Len(s)}

\* range(n) as a sequence: <<0, ..., n-1>>
PyRange(n) == Strict([k \in 1..n |-> k - 1])

(***************************************************************************)
(* itertools.permutations(pool): every ordering of pool, emitted in        *)
(* lexicographic order of positions.                                       *)
(***************************************************************************)
RECURSIVE permutations(_)
permutations(pool) ==
    IF Len(pool) = 0 THEN << <<>> >>
    ELSE Concat(Strict([i \in 1..Len(pool) |->
                    LET rest == permutations(Remove(pool, i))
                    IN  Strict([k \in 1..Len(rest) |-> <<pool[i]>> \o rest[k]])]))

\* list(permutations(range(n))), tabulated once for the sizes the model uses
PermTable == Strict([n \in 1..(FactorialMax + 2) |-> permutations(PyRange(n))])

Perms(n) == IF n = 0 THEN << <<>> >> ELSE PermTable[n]

(***************************************************************************)
(* torch.min(loss_set, dim=1) on one row: the minimal value and the index  *)
(* of its first occurrence (0-based index).                                *)
(***************************************************************************)
RECURSIVE MinFrom(_, _, _)
MinFrom(row, i, best) ==
    IF i > Len(row) THEN best
    ELSE MinFrom(row, i + 1, IF FracLess(row[i], row[best]) THEN i ELSE best)

RECURSIVE MinFromLast(_, _, _)
MinFromLast(row, i, best) ==
    IF i > Len(row) THEN best
    ELSE MinFromLast(row, i + 1, IF FracLess(row[best], row[i]) THEN best ELSE i)

TorchMinLast(row) ==
    LET i == MinFromLast(row, 2, 1)
    IN  [value |-> row[i], index |-> i - 1]

TorchMin(row) ==
    LET i == MinFrom(row, 2, 1)
    IN  [value |-> row[i], index |-> i - 1]

\* m.transpose(-1, -2) of one batch row: [R x C] -> [C x R]
TransposeNone(m) == m

Transpose(m) == Strict([j \in 1..Len(m[1]) |-> Strict([i \in 1..Len(m) |-> m[i][j]])])

(***************************************************************************)
(* The reduction callbacks (perm_reduce) the model supplies:               *)
(* (B, n_src!, n_src) -> (B, n_src!); "None" is no callback.               *)
(***************************************************************************)
Reductions == {"max"}

ApplyReduce(perm_reduce, pwl_set) ==
    Strict([b \in 1..Len(pwl_set) |->
        Strict([p \in 1..Len(pwl_set[b]) |-> Frac(MaxSeq(pwl_set[b][p]), 1)])])

(***************************************************************************)
(* Result of a permutation search: an error, or (min_loss, batch_indices). *)
(***************************************************************************)
SearchOk(algo, min_loss, batch_indices) ==
    [algo |-> algo, err |-> "", min_loss |-> min_loss, batch_indices |-> batch_indices]
SearchErr(algo, e) ==
    [algo |-> algo, err |-> e, min_loss |-> <<>>, batch_indices |-> <<>>]
NoSearch == SearchErr("none", "")

(***************************************************************************)
(* find_best_perm_factorial (lines 464-487).                               *)
(***************************************************************************)
\* perms_one_hot[p][i][j] = 1 iff perms[p][i] = j  (scatter_ of 1 along dim 2)
PermsOneHot(perms, n_src) ==
    Strict([p \in 1..Len(perms) |-> Strict([i \in 1..n_src |-> Strict([j \in 1..n_src |->
        IF perms[p][i] = j - 1 THEN 1 ELSE 0])])])

\* torch.einsum("bij,pij->bp", [pwl, perms_one_hot]) for one b and p; a
\* dimension of size 1 broadcasts against the other operand's size.
Einsum(pwl_b, one_hot_p) ==
    LET ni == Len(pwl_b)
        ja == Len(pwl_b[1])
        jb == Len(one_hot_p[1])
        nj == IF ja >= jb THEN ja ELSE jb
    IN  SumSeq(Strict([i \in 1..ni |->
            SumSeq(Strict([j \in 1..nj |->
                pwl_b[i][IF ja = 1 THEN 1 ELSE j] * one_hot_p[i][IF jb = 1 THEN 1 ELSE j]]))]))

EinsumShapesOk(pwl_b, n_src) ==
    LET ja == Len(pwl_b[1]) IN ja = n_src \/ ja = 1 \/ n_src = 1

FindBestPermFactorial(pair_wise_losses, perm_reduce) ==
    LET B == Len(pair_wise_losses)
        n_src == Len(pair_wise_losses[1][1])
        pwl == Strict([b \in 1..B |-> Transpose(pair_wise_losses[b])])
        perms == Perms(n_src)
        P == Len(perms)
        n_est == Len(pwl[1][1])
        loss_set ==
            IF perm_reduce = "None"
            THEN LET perms_one_hot == PermsOneHot(perms, n_src)
                 IN  Strict([b \in 1..B |-> Strict([p \in 1..P |->
                        Frac(Einsum(pwl[b], perms_one_hot[p]), n_src)])])
            ELSE LET pwl_set == Strict([b \in 1..B |-> Strict([p \in 1..P |->
                                  Strict([k \in 1..n_src |-> pwl[b][k][perms[p][k] + 1]])])])
                 IN  ApplyReduce(perm_reduce, pwl_set)
        mins == Strict([b \in 1..B |-> TorchMin(loss_set[b])])
    IN  IF perm_reduce = "None" /\ ~EinsumShapesOk(pwl[1], n_src)
        THEN SearchErr("factorial", "RuntimeError")
        ELSE IF perm_reduce # "None" /\ n_src > n_est
        THEN SearchErr("factorial", "IndexError")
        ELSE SearchOk("factorial",
                      Strict([b \in 1..B |-> mins[b].value]),
                      Strict([b \in 1..B |-> perms[mins[b].index + 1]]))

(***************************************************************************)
(* scipy.optimize.linear_sum_assignment(cost): a minimum-cost assignment   *)
(* of min(R, C) rows to distinct columns; row_ind is sorted.  Which of     *)
(* several optimal assignments is returned is the solver's choice, so the  *)
(* model returns the set of all of them ([0] = row_ind, [1] = col_ind).    *)
(***************************************************************************)
Injections(k, n) ==
    IF k = n THEN Range(Perms(n))
    ELSE {s \in [1..k -> 0..(n - 1)] : \A a, b \in 1..k : a # b => s[a] # s[b]}

Increasing(k, n) ==
    IF k = n THEN {PyRange(n)}
    ELSE {s \in [1..k -> 0..(n - 1)] : \A a, b \in 1..k : a < b => s[a] < s[b]}

AssignCost(cost, a) ==
    SumSeq(Strict([k \in 1..Len(a[1]) |-> cost[a[1][k] + 1][a[2][k] + 1]]))

MinOf(S) == CHOOSE x \in S : \A y \in S : x <= y

\* the assignments <<row_ind, col_ind>> of an R x C cost matrix, tabulated
\* for the sizes the permutation table covers
Assignments(R, C) ==
    LET k == IF R <= C THEN R ELSE C
    IN  {<<r, c>> : r \in Increasing(k, R), c \in Injections(k, C)}

AssignTable ==
    Strict([R \in 1..(FactorialMax + 2) |->
        Strict([C \in 1..(FactorialMax + 2) |-> Assignments(R, C)])])

linear_sum_assignment(cost) ==
    LET R == Len(cost)
        C == Len(cost[1])
        all == IF R <= FactorialMax + 2 /\ C <= FactorialMax + 2
               THEN AssignTable[R][C] ELSE Assignments(R, C)
        best == MinOf({AssignCost(cost, a) : a \in all})
    IN  {a \in all : AssignCost(cost, a) = best}

(***************************************************************************)
(* find_best_perm_hungarian (lines 505-514): the set of possible returns.  *)
(***************************************************************************)
\* torch.gather(pwl, 2, batch_indices[..., None]).mean([-1, -2]) for one row
GatherMean(pwl_b, indices_b) ==
    Frac(SumSeq(Strict([r \in 1..Len(indices_b) |-> pwl_b[r][indices_b[r] + 1]])),
         Len(indices_b))

HungarianCostNoTranspose(pair_wise_losses) == pair_wise_losses

HungarianCost(pair_wise_losses) ==
    Strict([b \in 1..Len(pair_wise_losses) |-> Transpose(pair_wise_losses[b])])

\* line 506: pwl, the transposed view of the caller's matrix, still attached
\* to it
Pwl(pair_wise_losses) ==
    Strict([b \in 1..Len(pair_wise_losses) |-> Transpose(pair_wise_losses[b])])

\* line 513: min_loss is gathered from pwl, not from the detached pwl_copy
\* that chose the indices
HungarianMinLossDetached(pwl, pwl_copy, batch_indices) ==
    Strict([b \in 1..Len(pwl) |-> GatherMean(pwl_copy[b], batch_indices[b])])

HungarianMinLoss(pwl, pwl_copy, batch_indices) ==
    Strict([b \in 1..Len(pwl) |-> GatherMean(pwl[b], batch_indices[b])])

\* lines 509-511: linear_sum_assignment(pwl)[1] of every row of pwl_copy, the
\* index tensors the solver may return
HungarianIndices(pwl_copy) ==
    LET B == Len(pwl_copy)
        choices == Strict([b \in 1..B |-> {a[2] : a \in linear_sum_assignment(pwl_copy[b])}])
    IN  {s \in [1..B -> UNION Range(choices)] : \A b \in 1..B : s[b] \in choices[b]}

FindBestPermHungarian(pair_wise_losses) ==
    LET pwl == Pwl(pair_wise_losses)
        pwl_copy == HungarianCost(pair_wise_losses)
    IN  {SearchOk("hungarian",
                  HungarianMinLoss(pwl, pwl_copy, batch_indices),
                  batch_indices) :
            batch_indices \in HungarianIndices(pwl_copy)}

(***************************************************************************)
(* find_best_perm (lines 411-418): the dispatch.                           *)
(***************************************************************************)
UseFactorialBelow(perm_reduce, n_src) == perm_reduce # "None" \/ n_src < FactorialMax

UseFactorial(perm_reduce, n_src) == perm_reduce # "None" \/ n_src <= FactorialMax

FindBestPerm(pair_wise_losses, perm_reduce) ==
    LET n_src == Len(pair_wise_losses[1][1])
    IN  IF UseFactorial(perm_reduce, n_src)
        THEN {FindBestPermFactorial(pair_wise_losses, perm_reduce)}
        ELSE FindBestPermHungarian(pair_wise_losses)

(***************************************************************************)
(* reorder_source (lines 433-436): per row, index_select(s, 0, b).  An     *)
(* index outside the row's sources is an error.                            *)
(***************************************************************************)
ReorderIndexOk(source, batch_indices) ==
    \A b \in 1..Len(source) : \A k \in 1..Len(batch_indices[b]) :
        batch_indices[b][k] + 1 <= Len(source[b])

\* the inverse convention: reordered[b, indices[k]] = source[b, k]
ReorderSourceInverse(source, batch_indices) ==
    Strict([b \in 1..Len(source) |->
        Strict([k \in 1..Len(batch_indices[b]) |->
            source[b][CHOOSE j \in 1..Len(batch_indices[b]) : batch_indices[b][j] = k - 1]])])

ReorderSource(source, batch_indices) ==
    Strict([b \in 1..Len(source) |->
        Strict([k \in 1..Len(batch_indices[b]) |-> source[b][batch_indices[b][k] + 1]])])

(***************************************************************************)
(* The loss callbacks (loss_func) the model supplies.  A source signal is  *)
(* one sample, so est_targets and targets are [batch][source] of naturals. *)
(***************************************************************************)
Sq(a, b) == (a - b) * (a - b)

\* pw_pt: loss_func(est_src, target_src) on two [batch] vectors -> [batch]
PairLoss(est_src, target_src) ==
    Strict([b \in 1..Len(est_src) |-> Sq(est_src[b], target_src[b])])

\* pw_mtx: loss_func(est_targets, targets) -> a tensor [ndim, batch, data].
\*   "pairwise_sq"  data[b][i][j] = loss(est i, target j), [B, n_est, n_tgt]
\*   "flat_sq"      rank 2: data[b][i] = loss(est i, target 0), [B, n_est]
\*   "batchsum_sq"  the pairwise matrix summed over the batch, [1, n_est, n_tgt]
PairwiseSq(est, tgt) ==
    Strict([b \in 1..Len(est) |-> Strict([i \in 1..Len(est[b]) |->
        Strict([j \in 1..Len(tgt[b]) |-> Sq(est[b][i], tgt[b][j])])])])

MatrixLoss(loss_func, est, tgt) ==
    IF loss_func = "pairwise_sq"
    THEN [ndim |-> 3, batch |-> Len(est), data |-> PairwiseSq(est, tgt)]
    ELSE IF loss_func = "flat_sq"
    THEN [ndim |-> 2, batch |-> Len(est),
          data |-> Strict([b \in 1..Len(est) |-> Strict([i \in 1..Len(est[b]) |->
                        Sq(est[b][i], tgt[b][1])])])]
    ELSE [ndim |-> 3, batch |-> 1,
          data |-> << Strict([i \in 1..Len(est[1]) |-> Strict([j \in 1..Len(tgt[1]) |->
                        SumSeq(Strict([b \in 1..Len(est) |-> Sq(est[b][i], tgt[b][j])]))])]) >>]

\* perm_avg, mix_it, mix_it_gen: loss_func(est, targets) on two
\* [batch][source] tensors with the same source count -> [batch], the mean
\* over the sources of the squared difference
MultiLoss(est, tgt) ==
    Strict([b \in 1..Len(est) |->
        Frac(SumSeq(Strict([k \in 1..Len(tgt[b]) |-> Sq(est[b][k], tgt[b][k])])),
             Len(tgt[b]))])

(***************************************************************************)
(* get_pw_losses (lines 185-190).  The matrix is allocated uninitialised   *)
(* with the shape [batch, n_src, n_src] of the TARGETS; entry              *)
(* [:, est_idx, target_idx] is written for every estimate and target       *)
(* source.  A write outside the allocation is an IndexError; an entry      *)
(* never written keeps whatever the allocation held (garbage).             *)
(***************************************************************************)
\* the (est_idx, target_idx) pairs in loop order, 0-based
PairLoopSkipDiagonal(n_est, n_tgt) ==
    Concat(Strict([i \in 1..n_est |->
        Strict([j \in 1..(n_tgt - 1) |-> <<i - 1, IF j < i THEN j - 1 ELSE j>>])]))

PairLoop(n_est, n_tgt) ==
    Concat(Strict([i \in 1..n_est |-> Strict([j \in 1..n_tgt |-> <<i - 1, j - 1>>])]))

\* the allocation: new_empty(batch_size, n_src, n_src), n_src of the targets
PwAllocRows(n_est, n_tgt) == n_tgt

\* the iterations that run: the loop stops at the first write outside the
\* allocation (the callback of that iteration has been invoked)
PwLoopDone(n_est, n_tgt) ==
    LET loop == PairLoop(n_est, n_tgt)
        rows == PwAllocRows(n_est, n_tgt)
        bad == {k \in 1..Len(loop) : loop[k][1] >= rows}
    IN  IF bad = {} THEN loop ELSE SubSeq(loop, 1, MinOf(bad))

\* the callback's invocations: one record per iteration that ran
PwCalls(est, tgt) ==
    LET loop == PwLoopDone(Len(est[1]), Len(tgt[1]))
    IN  Strict([k \in 1..Len(loop) |->
            [est_idx |-> loop[k][1], target_idx |-> loop[k][2],
             est_src |-> Strict([b \in 1..Len(est) |-> est[b][loop[k][1] + 1]]),
             target_src |-> Strict([b \in 1..Len(tgt) |-> tgt[b][loop[k][2] + 1]])]])

\* the possible returns [err, matrix, written]: written are the entries
\* (est_idx, target_idx) the loop assigned, every other entry is garbage
GetPwLosses(est, tgt, garbage) ==
    LET B == Len(tgt)
        n_tgt == Len(tgt[1])
        n_est == Len(est[1])
        rows == PwAllocRows(n_est, n_tgt)
        cs == PwCalls(est, tgt)
        inside == {k \in 1..Len(cs) : cs[k].est_idx < rows}
        written == {<<cs[k].est_idx, cs[k].target_idx>> : k \in inside}
        unwritten == ((0..(rows - 1)) \X (0..(n_tgt - 1))) \ written
        value(b, i, j) ==
            LET k == CHOOSE k \in inside : cs[k].est_idx = i /\ cs[k].target_idx = j
            IN  PairLoss(cs[k].est_src, cs[k].target_src)[b]
    IN  IF inside # 1..Len(cs)
        THEN {[err |-> "IndexError", matrix |-> <<>>, written |-> written]}
        ELSE {[err |-> "", written |-> written,
               matrix |-> Strict([b \in 1..B |-> Strict([i \in 1..rows |->
                            Strict([j \in 1..n_tgt |->
                                IF <<i - 1, j - 1>> \in written
                                THEN value(b, i - 1, j - 1)
                                ELSE g[<<b, <<i - 1, j - 1>>>>]])])])] :
                g \in [(1..B) \X unwritten -> garbage]}

(***************************************************************************)
(* best_perm_from_perm_avg_loss (lines 213-222).                           *)
(***************************************************************************)
BestPermFromPermAvgLoss(est, tgt) ==
    LET B == Len(tgt)
        n_src == Len(tgt[1])
        perms == Perms(n_src)
        loss_set == Strict([p \in 1..Len(perms) |->
                        MultiLoss(ReorderSource(est, Strict([b \in 1..B |-> perms[p]])), tgt)])
        mins == Strict([b \in 1..B |->
                    TorchMin(Strict([p \in 1..Len(perms) |-> loss_set[p][b]]))])
    IN  IF n_src > Len(est[1])
        THEN SearchErr("perm_avg", "IndexError")
        ELSE SearchOk("perm_avg",
                      Strict([b \in 1..B |-> mins[b].value]),
                      Strict([b \in 1..B |-> perms[mins[b].index + 1]]))

(***************************************************************************)
(* itertools.combinations(pool, k): the k-subsets of pool as sequences, in *)
(* lexicographic order of positions.                                       *)
(***************************************************************************)
RECURSIVE combinations(_, _)
combinations(pool, k) ==
    IF k = 0 THEN << <<>> >>
    ELSE IF Len(pool) < k THEN <<>>
    ELSE LET with == combinations(Tail(pool), k - 1)
         IN  Strict([c \in 1..Len(with) |-> <<pool[1]>> \o with[c]])
             \o combinations(Tail(pool), k)

\* [x for x in lst if x not in c]
RECURSIVE Rest(_, _)
Rest(lst, c) ==
    IF Len(lst) = 0 THEN <<>>
    ELSE IF lst[1] \in Range(c) THEN Rest(Tail(lst), c)
    ELSE <<lst[1]>> \o Rest(Tail(lst), c)

(***************************************************************************)
(* best_part_mix_it.combs (lines 271-278).                                 *)
(***************************************************************************)
RECURSIVE combs(_, _, _)
combs(lst, k, l) ==
    IF l = 0 THEN << <<>> >>
    ELSE LET cs == combinations(lst, k)
         IN  Concat(Strict([c \in 1..Len(cs) |->
                LET rs == combs(Rest(lst, cs[c]), k, l - 1)
                IN  Strict([r \in 1..Len(rs) |-> <<cs[c]>> \o rs[r]])]))

(***************************************************************************)
(* best_part_mix_it_generalized.all_combinations (lines 352-358).          *)
(***************************************************************************)
all_combinations_nonempty(lst) ==
    Concat(Strict([k1 \in 1..Len(lst) |->
        LET cs == combinations(lst, k1)
        IN  Strict([c \in 1..Len(cs) |-> <<cs[c], Rest(lst, cs[c])>>])]))

all_combinations(lst) ==
    Concat(Strict([k1 \in 1..(Len(lst) + 1) |->
        LET cs == combinations(lst, k1 - 1)
        IN  Strict([c \in 1..Len(cs) |-> <<cs[c], Rest(lst, cs[c])>>])]))

(***************************************************************************)
(* The part the two partition engines share (lines 280-306, 360-385):      *)
(* sum the estimates of each group, evaluate the callback on every         *)
(* candidate, take the first minimum per row and re-sum that row's groups. *)
(***************************************************************************)
\* torch.sum(est_targets[:, indexes, :], axis=1) stacked over the groups
EstMixes(est, partition) ==
    Strict([b \in 1..Len(est) |-> Strict([g \in 1..Len(partition) |->
        SumSeq(Strict([k \in 1..Len(partition[g]) |-> est[b][partition[g][k] + 1]]))])])

PartResult(err, parts, min_loss, ordered) ==
    [err |-> err, parts |-> parts, min_loss |-> min_loss, ordered |-> ordered]

\* the reconstruction with the first row's winner used for every row
BestPartFirstRow(est, tgt, parts) ==
    LET B == Len(est)
        loss_set == Strict([p \in 1..Len(parts) |-> MultiLoss(EstMixes(est, parts[p]), tgt)])
        mins == Strict([b \in 1..B |->
                    TorchMin(Strict([p \in 1..Len(parts) |-> loss_set[p][b]]))])
    IN  PartResult("", parts,
                   Strict([b \in 1..B |-> mins[b].value]),
                   Strict([b \in 1..B |-> EstMixes(est, parts[mins[1].index + 1])[b]]))

BestPart(est, tgt, parts) ==
    LET B == Len(est)
        loss_set == Strict([p \in 1..Len(parts) |-> MultiLoss(EstMixes(est, parts[p]), tgt)])
        mins == Strict([b \in 1..B |->
                    TorchMin(Strict([p \in 1..Len(parts) |-> loss_set[p][b]]))])
    IN  PartResult("", parts,
                   Strict([b \in 1..B |-> mins[b].value]),
                   Strict([b \in 1..B |-> EstMixes(est, parts[mins[b].index + 1])[b]]))

(***************************************************************************)
(* best_part_mix_it (lines 256-306).                                       *)
(***************************************************************************)
BestPartMixIt(est, tgt) ==
    LET n_mixtures == Len(tgt[1])
        n_est == Len(est[1])
        n_src == n_est \div n_mixtures
    IN  IF n_est % n_mixtures # 0
        THEN PartResult("ValueError", <<>>, <<>>, <<>>)
        ELSE BestPart(est, tgt, combs(PyRange(n_est), n_src, n_mixtures))

(***************************************************************************)
(* best_part_mix_it_generalized (lines 339-385).                           *)
(***************************************************************************)
BestPartMixItGeneralized(est, tgt) ==
    LET n_mixtures == Len(tgt[1])
        n_est == Len(est[1])
    IN  IF n_mixtures # 2
        THEN PartResult("ValueError", <<>>, <<>>, <<>>)
        ELSE BestPart(est, tgt, all_combinations(PyRange(n_est)))

(***************************************************************************)
(* Specification SpecSearch: the static search methods applied to every    *)
(* square pairwise matrix within the bounds.                               *)
(***************************************************************************)
NoWrapper == [pit_from |-> "", perm_reduce |-> "", loss_func |-> "", usable |-> FALSE]

\* a tensor handed over as a pairwise loss matrix: its rank, its first
\* dimension and its entries
Tensor(ndim, batch, data) == [ndim |-> ndim, batch |-> batch, data |-> data]
NoTensor == Tensor(0, 0, <<>>)

\* what a call returned: kind is "loss" (the scalar loss alone), "pair" (the
\* tuple (loss, tensor)), "matrix", "error" (an exception) or "none"
Ret(kind, err, loss, tensor) == [kind |-> kind, err |-> err, loss |-> loss, tensor |-> tensor]
NoRet == Ret("none", "", Frac(0, 1), <<>>)

\* the call that has run: the method, and its perm_reduce / return_est arguments
Call(method, perm_reduce, return_est) ==
    [method |-> method, perm_reduce |-> perm_reduce, return_est |-> return_est]
Idle == Call("idle", "None", FALSE)

\* every [B x n x n] matrix over 0..MaxLoss with at most MaxCells entries
FullMatrices ==
    UNION {[1..B -> [1..n -> [1..n -> 0..MaxLoss]]] :
            <<B, n>> \in {x \in (1..MaxBatch) \X (1..(FactorialMax + 1)) :
                            x[1] * x[2] * x[2] <= MaxCells}}

\* the larger sizes (one row): every entry is MaxLoss except at most MaxLow
\* entries, which are 0
LowCellSets(n) ==
    {S \in SUBSET ((1..n) \X (1..n)) : Cardinality(S) <= MaxLow}

SparseMatrices ==
    UNION {{<<[i \in 1..n |-> [j \in 1..n |-> IF <<i, j>> \in S THEN 0 ELSE MaxLoss]]>> :
                S \in LowCellSets(n)} :
            n \in {m \in 1..(FactorialMax + 1) : m * m > MaxCells}}

SquareMatrices == FullMatrices \cup SparseMatrices

InitSearch ==
    /\ wrapper = NoWrapper
    /\ est_targets = <<>>
    /\ targets = <<>>
    /\ pw_losses \in {Tensor(3, Len(d), d) : d \in SquareMatrices}
    /\ op = Idle
    /\ search = NoSearch
    /\ ret = NoRet
    /\ calls = <<>>

CallFindBestPermFactorial ==
    /\ op = Idle
    /\ \E perm_reduce \in Reductions \cup {"None"} :
        /\ search' = FindBestPermFactorial(pw_losses.data, perm_reduce)
        /\ op' = Call("find_best_perm_factorial", perm_reduce, FALSE)
    /\ UNCHANGED <<wrapper, est_targets, targets, pw_losses, ret, calls>>

CallFindBestPermHungarian ==
    /\ op = Idle
    /\ search' \in FindBestPermHungarian(pw_losses.data)
    /\ op' = Call("find_best_perm_hungarian", "None", FALSE)
    /\ UNCHANGED <<wrapper, est_targets, targets, pw_losses, ret, calls>>

CallFindBestPerm ==
    /\ op = Idle
    /\ \E perm_reduce \in Reductions \cup {"None"} :
        /\ search' \in FindBestPerm(pw_losses.data, perm_reduce)
        /\ op' = Call("find_best_perm", perm_reduce, FALSE)
    /\ UNCHANGED <<wrapper, est_targets, targets, pw_losses, ret, calls>>

NextSearch ==
    \/ CallFindBestPermFactorial
    \/ CallFindBestPermHungarian
    \/ CallFindBestPerm

SpecSearch == InitSearch /\ [][NextSearch]_vars

(***************************************************************************)
(* PITLossWrapper.__init__ (lines 74-83): the fields are stored, then an   *)
(* unknown pit_from raises ValueError, so no instance comes to exist.      *)
(***************************************************************************)
Modes == {"pw_mtx", "pw_pt", "perm_avg", "mix_it", "mix_it_gen"}

\* the callbacks the model pairs with each mode
LossFuncs(pit_from) ==
    IF pit_from = "pw_mtx" THEN {"pairwise_sq", "flat_sq", "batchsum_sq"}
    ELSE IF pit_from = "pw_pt" THEN {"pair_sq"}
    ELSE {"multi_sq"}

ModeSupportedAny(pit_from) == TRUE

ModeSupported(pit_from) == pit_from \in Modes

Init__(loss_func, pit_from, perm_reduce) ==
    [pit_from |-> pit_from, perm_reduce |-> perm_reduce, loss_func |-> loss_func,
     usable |-> ModeSupported(pit_from)]

ConstructWith(modes) ==
    /\ op = Idle
    /\ \E pit_from \in modes, perm_reduce \in Reductions \cup {"None"} :
       \E loss_func \in LossFuncs(pit_from) :
        /\ wrapper' = Init__(loss_func, pit_from, perm_reduce)
        /\ ret' = IF wrapper'.usable THEN NoRet
                  ELSE Ret("error", "ValueError", Frac(0, 1), <<>>)
        /\ op' = Call("__init__", perm_reduce, FALSE)
    /\ UNCHANGED <<est_targets, targets, pw_losses, search, calls>>

\* any mode string, "pw_mat" standing for the unsupported ones
Construct == ConstructWith(Modes \cup {"pw_mat"})

\* the two pairwise modes
ConstructPairwise == ConstructWith({"pw_mtx", "pw_pt"})

\* the three modes that search a permutation
ConstructPermutation == ConstructWith({"pw_mtx", "pw_pt", "perm_avg"})

(***************************************************************************)
(* PITLossWrapper.forward (lines 106-160): the possible outcomes           *)
(* [ret, search, pw, calls] of one call.                                   *)
(***************************************************************************)
Outcome(r, s, pw, cs) == [ret |-> r, search |-> s, pw |-> pw, calls |-> cs]
Raise(e, s, pw, cs) == Outcome(Ret("error", e, Frac(0, 1), <<>>), s, pw, cs)

\* lines 156-160: the batch mean, alone or with the reordered estimates
ReturnsTuple(return_est) == return_est

FinishForward(est, s, pw, cs, return_est) ==
    IF s.err # "" THEN Raise(s.err, s, pw, cs)
    ELSE LET mean_loss == MeanOfFracs(s.min_loss)
         IN  IF ~ReturnsTuple(return_est)
             THEN Outcome(Ret("loss", "", mean_loss, <<>>), s, pw, cs)
             ELSE IF ~ReorderIndexOk(est, s.batch_indices)
             THEN Raise("IndexError", s, pw, cs)
             ELSE Outcome(Ret("pair", "", mean_loss, ReorderSource(est, s.batch_indices)),
                          s, pw, cs)

\* lines 147-150: the assertions on the pairwise matrix
PwAssertionsHold(pw, tgt) == pw.ndim = 3 /\ pw.batch = Len(tgt)

\* lines 147-160: the assertions, the search, the return
ForwardPairwise(w, est, tgt, pw, cs, return_est) ==
    IF ~PwAssertionsHold(pw, tgt)
    THEN {Raise("AssertionError", NoSearch, pw, cs)}
    ELSE {FinishForward(est, s, pw, cs, return_est) :
            s \in FindBestPerm(pw.data, w.perm_reduce)}

\* lines 126-143: a partition mode returns (mean_loss, reordered) whatever
\* return_est is
ForwardPartition(r, return_est) ==
    IF r.err # "" THEN Raise(r.err, NoSearch, NoTensor, r.parts)
    ELSE Outcome(Ret("pair", "", MeanOfFracs(r.min_loss), r.ordered),
                 NoSearch, NoTensor, r.parts)

Forward(w, est, tgt, return_est) ==
    LET n_src == Len(tgt[1])
    IN  IF ~(n_src < SrcCeiling)
        THEN {Raise("AssertionError", NoSearch, NoTensor, <<>>)}
        ELSE IF w.pit_from = "pw_mtx"
        THEN ForwardPairwise(w, est, tgt, MatrixLoss(w.loss_func, est, tgt),
                             <<w.loss_func>>, return_est)
        ELSE IF w.pit_from = "pw_pt"
        THEN UNION {IF g.err # ""
                    THEN {Raise(g.err, NoSearch, NoTensor, PwCalls(est, tgt))}
                    ELSE ForwardPairwise(w, est, tgt, Tensor(3, Len(tgt), g.matrix),
                                         PwCalls(est, tgt), return_est) :
                    g \in GetPwLosses(est, tgt, 0..MaxLoss)}
        ELSE IF w.pit_from = "perm_avg"
        THEN LET s == BestPermFromPermAvgLoss(est, tgt)
             IN  {FinishForward(est, s, NoTensor,
                                IF s.err = "" THEN Perms(n_src) ELSE <<>>, return_est)}
        ELSE IF w.pit_from = "mix_it"
        THEN {ForwardPartition(BestPartMixIt(est, tgt), return_est)}
        ELSE IF w.pit_from = "mix_it_gen"
        THEN {ForwardPartition(BestPartMixItGeneralized(est, tgt), return_est)}
        ELSE {Outcome(Ret("none", "", Frac(0, 1), <<>>), NoSearch, NoTensor, <<>>)}

CallForward ==
    /\ op.method = "__init__"
    /\ wrapper.usable
    /\ \E return_est \in BOOLEAN :
       \E o \in Forward(wrapper, est_targets, targets, return_est) :
        /\ ret' = o.ret
        /\ search' = o.search
        /\ pw_losses' = o.pw
        /\ calls' = o.calls
        /\ op' = Call("forward", wrapper.perm_reduce, return_est)
    /\ UNCHANGED <<wrapper, est_targets, targets>>

NextWrapper ==
    \/ Construct
    \/ CallForward

(***************************************************************************)
(* Specification SpecWrapper: a wrapper is constructed with any mode and   *)
(* called once on estimates and targets within the bounds.                 *)
(***************************************************************************)
Shapes ==
    {x \in (1..MaxBatch) \X (1..MaxSrc) \X (1..MaxSrc) :
        /\ x[1] * (x[2] + x[3]) <= MaxSamples
        /\ x[1] * x[3] * (x[3] - x[2]) <= MaxGarbage}

\* [batch][source] tensors of samples
Signals(B, n) == [1..B -> [1..n -> 0..MaxSig]]

InitTensors ==
    /\ \E x \in Shapes :
        /\ est_targets \in Signals(x[1], x[2])
        /\ targets \in Signals(x[1], x[3])
    /\ wrapper = NoWrapper
    /\ pw_losses = NoTensor
    /\ op = Idle
    /\ search = NoSearch
    /\ ret = NoRet
    /\ calls = <<>>

SpecWrapper == InitTensors /\ [][NextWrapper]_vars

(***************************************************************************)
(* Specification SpecEngines: the static engines called directly.          *)
(***************************************************************************)
CallGetPwLosses ==
    /\ op = Idle
    /\ \E g \in GetPwLosses(est_targets, targets, 0..MaxLoss) :
        /\ ret' = IF g.err # "" THEN Ret("error", g.err, Frac(0, 1), {})
                  ELSE Ret("matrix", "", Frac(0, 1), g.written)
        /\ pw_losses' = IF g.err # "" THEN NoTensor
                        ELSE Tensor(3, Len(g.matrix), g.matrix)
    /\ calls' = PwCalls(est_targets, targets)
    /\ op' = Call("get_pw_losses", "None", FALSE)
    /\ UNCHANGED <<wrapper, est_targets, targets, search>>

PartitionReturn(r) ==
    IF r.err # "" THEN Ret("error", r.err, Frac(0, 1), <<>>)
    ELSE Ret("pair", "", Frac(0, 1), [min_loss |-> r.min_loss, ordered |-> r.ordered])

CallBestPartMixIt ==
    /\ op = Idle
    /\ LET r == BestPartMixIt(est_targets, targets)
       IN  /\ ret' = PartitionReturn(r)
           /\ calls' = r.parts
    /\ op' = Call("best_part_mix_it", "None", FALSE)
    /\ UNCHANGED <<wrapper, est_targets, targets, pw_losses, search>>

CallBestPartMixItGeneralized ==
    /\ op = Idle
    /\ LET r == BestPartMixItGeneralized(est_targets, targets)
       IN  /\ ret' = PartitionReturn(r)
           /\ calls' = r.parts
    /\ op' = Call("best_part_mix_it_generalized", "None", FALSE)
    /\ UNCHANGED <<wrapper, est_targets, targets, pw_losses, search>>

NextEngines ==
    \/ CallGetPwLosses
    \/ CallBestPartMixIt
    \/ CallBestPartMixItGeneralized

SpecEngines == InitTensors /\ [][NextEngines]_vars

(***************************************************************************)
(* Specification SpecIdentity: the targets of every row are pairwise       *)
(* distinct signals, listed in increasing order, and the estimates are the *)
(* same signals in any order; a pairwise-mode wrapper is constructed and   *)
(* called.                                                                 *)
(***************************************************************************)
IdentityShapes ==
    {x \in (1..MaxBatch) \X (1..MaxSrc) : x[1] * x[2] <= MaxSrc}

InitIdentity ==
    /\ \E x \in IdentityShapes :
        /\ targets \in [1..x[1] -> Increasing(x[2], MaxSrc)]
        /\ \E sigma \in [1..x[1] -> Range(Perms(x[2]))] :
            est_targets = [b \in 1..x[1] |-> [i \in 1..x[2] |-> targets[b][sigma[b][i] + 1]]]
    /\ wrapper = NoWrapper
    /\ pw_losses = NoTensor
    /\ op = Idle
    /\ search = NoSearch
    /\ ret = NoRet
    /\ calls = <<>>

NextIdentity ==
    \/ ConstructPairwise
    \/ CallForward

SpecIdentity == InitIdentity /\ [][NextIdentity]_vars

(***************************************************************************)
(* Properties of the permutation search (SpecSearch).                      *)
(***************************************************************************)
\* the bijections of 0..n-1 as sequences, and the order in which a
\* lexicographic generator emits them
Bijections(n) ==
    {q \in [1..n -> 0..(n - 1)] : \A a, b \in 1..n : a # b => q[a] # q[b]}

LexBefore(q, p) ==
    \E i \in 1..Len(p) : q[i] < p[i] /\ \A j \in 1..(i - 1) : q[j] = p[j]

\* sum over k of pairwise[b, perm[k], k]
PermScore(pw_b, perm) == SumSeq(Strict([k \in 1..Len(perm) |-> pw_b[perm[k] + 1][k]]))

\* max over k of pairwise[b, perm[k], k]
PermMax(pw_b, perm) == MaxSeq(Strict([k \in 1..Len(perm) |-> pw_b[perm[k] + 1][k]]))

NSrc == Len(pw_losses.data[1][1])
Rows == 1..Len(pw_losses.data)

\* C1: on every square pairwise matrix (n_src <= 4, no reduction) the
\* matching search and the factorial search return the same minimal mean loss
\* for every batch row, whichever optimal assignment the solver returns.
C1_FactorialHungarianAgree ==
    /\ op = Call("find_best_perm_hungarian", "None", FALSE) =>
            LET f == FindBestPermFactorial(pw_losses.data, "None")
            IN  /\ search.err = "" /\ f.err = ""
                /\ \A b \in Rows : FracEq(search.min_loss[b], f.min_loss[b])
    /\ op = Call("find_best_perm_factorial", "None", FALSE) =>
            \A h \in FindBestPermHungarian(pw_losses.data) :
                \A b \in Rows : FracEq(search.min_loss[b], h.min_loss[b])

\* C1 witness: the matching search has run on a 4 x 4 matrix whose minimal
\* loss is positive and returned a permutation other than the factorial one.
C1_Witness ==
    /\ op = Call("find_best_perm_hungarian", "None", FALSE)
    /\ NSrc = 4
    /\ search.min_loss[1].num = 2
    /\ search.batch_indices[1] # FindBestPermFactorial(pw_losses.data, "None").batch_indices[1]

\* C2: without a reduction the factorial search returns, for every row b, the
\* minimum over all permutations of the mean over k of pairwise[b, perm[k], k],
\* and the permutation it returns is the first one in lexicographic
\* (generator) order that attains it.
C2_FactorialMinFirst ==
    op = Call("find_best_perm_factorial", "None", FALSE) =>
        /\ search.err = ""
        /\ \A b \in Rows :
            LET p == search.batch_indices[b]
                loss == search.min_loss[b]
            IN  /\ p \in Bijections(NSrc)
                /\ loss = Frac(PermScore(pw_losses.data[b], p), NSrc)
                /\ \A q \in Bijections(NSrc) :
                        /\ PermScore(pw_losses.data[b], q) >= PermScore(pw_losses.data[b], p)
                        /\ LexBefore(q, p) =>
                                PermScore(pw_losses.data[b], q) > PermScore(pw_losses.data[b], p)

\* C2 witness: a two-row batch whose rows have different winners, one of them
\* a tie that the first permutation in order wins.
C2_Witness ==
    /\ op = Call("find_best_perm_factorial", "None", FALSE)
    /\ Len(pw_losses.data) = 2
    /\ search.batch_indices[1] = <<1, 0>>
    /\ search.batch_indices[2] = <<0, 1>>
    /\ PermScore(pw_losses.data[2], <<1, 0>>) = PermScore(pw_losses.data[2], <<0, 1>>)

NEst == Len(est_targets[1])
NTgt == Len(targets[1])
Batch == Len(targets)

RECURSIVE Factorial(_)
Factorial(n) == IF n = 0 THEN 1 ELSE n * Factorial(n - 1)

RECURSIVE Power(_, _)
Power(x, n) == IF n = 0 THEN 1 ELSE x * Power(x, n - 1)

\* C3: identity recovery.  The targets of each row are pairwise distinct and
\* the estimates are a permutation sigma of them (est[i] = ref[sigma(i)]); a
\* pairwise loss that is zero exactly between identical sources then makes
\* the winning permutation p the inverse of sigma (p[sigma(i)] = i) and the
\* loss zero, on the factorial path and on the matching path.
C3_IdentityRecovery ==
    (/\ op.method = "forward"
     /\ wrapper.loss_func \in {"pair_sq", "pairwise_sq"}) =>
        /\ ret.kind \in {"loss", "pair"}
        /\ ret.loss.num = 0
        /\ search.algo = IF NTgt <= 3 \/ wrapper.perm_reduce # "None"
                         THEN "factorial" ELSE "hungarian"
        /\ \A b \in 1..Batch : \A i, s \in 0..(NTgt - 1) :
                est_targets[b][i + 1] = targets[b][s + 1]
                    => search.batch_indices[b][s + 1] = i

\* C3 witness: four sources, no reduction (the matching path), the estimates
\* a 3-cycle of the targets, which is not its own inverse.
C3_Witness ==
    /\ op.method = "forward"
    /\ wrapper.pit_from = "pw_pt"
    /\ wrapper.perm_reduce = "None"
    /\ NTgt = 4
    /\ search.algo = "hungarian"
    /\ search.batch_indices[1] = <<2, 0, 1, 3>>
    /\ ret.loss.num = 0

\* C4 (as claimed): best_part_mix_it evaluates each unordered partition into
\* n_mixtures groups of n_src exactly once, n_est! / ((n_src!)^n_mixtures *
\* n_mixtures!) candidates in all.
C4_UnorderedOnce ==
    (op.method = "best_part_mix_it" /\ ret.kind = "pair") =>
        LET n_src == NEst \div NTgt
            groups(p) == {Range(calls[p][g]) : g \in 1..Len(calls[p])}
        IN  /\ Len(calls) * Power(Factorial(n_src), NTgt) * Factorial(NTgt)
                    = Factorial(NEst)
            /\ \A p, q \in 1..Len(calls) : p # q => groups(p) # groups(q)

\* C5: best_part_mix_it_generalized evaluates exactly 2^n_est candidates, one
\* per subset S of the estimate indices, each the ordered pair (S, complement
\* of S): two disjoint groups covering all indices; the empty first group and
\* the empty second group are both among them.
C5_AllBinarySplits ==
    (op.method = "best_part_mix_it_generalized" /\ ret.kind = "pair") =>
        LET all == 0..(NEst - 1)
        IN  /\ Len(calls) = Power(2, NEst)
            /\ \A S \in SUBSET all :
                    Cardinality({p \in 1..Len(calls) : Range(calls[p][1]) = S}) = 1
            /\ \A p \in 1..Len(calls) :
                    /\ Len(calls[p]) = 2
                    /\ Range(calls[p][1]) \cap Range(calls[p][2]) = {}
                    /\ Range(calls[p][1]) \cup Range(calls[p][2]) = all
                    /\ Len(calls[p][1]) + Len(calls[p][2]) = NEst
            /\ \E p \in 1..Len(calls) : calls[p][1] = <<>>
            /\ \E p \in 1..Len(calls) : calls[p][2] = <<>>

\* C5 witness: three estimates, two mixtures, eight candidates.
C5_Witness ==
    /\ op.method = "best_part_mix_it_generalized"
    /\ ret.kind = "pair"
    /\ NEst = 3
    /\ Len(calls) = 8
    /\ calls[1] = <<<<>>, <<0, 1, 2>>>>
    /\ calls[8] = <<<<0, 1, 2>>, <<>>>>

\* C6 (as claimed): in every mode forward returns the scalar loss alone when
\* return_est is False and the pair (loss, reordered) only when it is True.
C6_ReturnEstDecides ==
    (op.method = "forward" /\ ret.kind # "error") =>
        ret.kind = IF op.return_est THEN "pair" ELSE "loss"

\* C8 (as claimed): in the modes pw_mtx and pw_pt a pairwise matrix that is not
\* rank 3, not square in its last two axes or not of the targets' batch size is
\* rejected with an error and no loss is returned.  (The claim also places the
\* error before any search; the formula asks only for an error, whenever it
\* is raised.)
PwWellFormed ==
    /\ pw_losses.ndim = 3
    /\ pw_losses.batch = Batch
    /\ Len(pw_losses.data[1]) = Len(pw_losses.data[1][1])

C8_MalformedRejected ==
    (/\ op.method = "forward"
     /\ wrapper.pit_from \in {"pw_mtx", "pw_pt"}
     /\ pw_losses # NoTensor
     /\ ~PwWellFormed) =>
        ret.kind = "error"

\* C9: configuration errors are raised where they are detected.  An unknown
\* mode raises ValueError in the constructor and leaves no usable instance
\* (so forward never runs on one); mix_it_gen raises ValueError when
\* n_mixtures # 2 and mix_it when n_est is not divisible by n_mixtures, both
\* before the loss callback is invoked for any candidate; a valid
\* configuration raises none of them.
C9_ConfigErrors ==
    /\ op.method = "__init__" =>
            /\ wrapper.usable <=> wrapper.pit_from \in Modes
            /\ ~wrapper.usable <=> (ret.kind = "error" /\ ret.err = "ValueError")
    /\ op.method = "forward" =>
            /\ wrapper.pit_from \in Modes
            /\ wrapper.pit_from = "mix_it_gen" =>
                    IF NTgt # 2
                    THEN ret.kind = "error" /\ ret.err = "ValueError" /\ calls = <<>>
                    ELSE ret.kind = "pair" /\ Len(calls) > 0
            /\ wrapper.pit_from = "mix_it" =>
                    IF NEst % NTgt # 0
                    THEN ret.kind = "error" /\ ret.err = "ValueError" /\ calls = <<>>
                    ELSE ret.kind = "pair" /\ Len(calls) > 0

\* C9 witness: mix_it called with three estimates and two mixtures.
C9_Witness ==
    /\ op.method = "forward"
    /\ wrapper.pit_from = "mix_it"
    /\ NEst = 3 /\ NTgt = 2
    /\ ret.err = "ValueError"
    /\ calls = <<>>

\* what get_pw_losses does on the full n_est x n_ref grid: one callback call
\* per pair, with the i-th estimate and the j-th target source, and its batch
\* vector stored at [:, i, j]
GridCalledOnce ==
    \A i \in 0..(NEst - 1), j \in 0..(NTgt - 1) :
        LET ks == {k \in 1..Len(calls) :
                        calls[k].est_idx = i /\ calls[k].target_idx = j}
        IN  /\ Cardinality(ks) = 1
            /\ \A k \in ks :
                /\ calls[k].est_src = [b \in 1..Batch |-> est_targets[b][i + 1]]
                /\ calls[k].target_src = [b \in 1..Batch |-> targets[b][j + 1]]

GridStored ==
    /\ ret.kind = "matrix"
    /\ pw_losses.ndim = 3
    /\ Len(pw_losses.data) = Batch
    /\ \A b \in 1..Batch :
        /\ Len(pw_losses.data[b]) = NEst
        /\ \A i \in 1..NEst :
            /\ Len(pw_losses.data[b][i]) = NTgt
            /\ \A j \in 1..NTgt :
                /\ <<i - 1, j - 1>> \in ret.tensor
                /\ pw_losses.data[b][i][j] = Sq(est_targets[b][i], targets[b][j])

\* C10 (as claimed): for any n_est and n_ref, equal or not.
C10_AnyGrid ==
    op.method = "get_pw_losses" =>
        /\ GridCalledOnce
        /\ Len(calls) = NEst * NTgt
        /\ GridStored

\* C10 (amended): when estimates and targets have the same number of sources
\* the callback is invoked exactly once per pair (i, j) with the i-th estimate
\* and the j-th target source, and the matrix [batch, n_src, n_src] holds that
\* call's batch vector at [:, i, j], every entry written.  The matrix is
\* allocated with the targets' source count on both axes: with more estimates
\* than targets the call raises IndexError, with fewer the rows from n_est on
\* are never written.
C10_SquareGrid ==
    op.method = "get_pw_losses" =>
        /\ NEst = NTgt =>
                /\ GridCalledOnce
                /\ Len(calls) = NEst * NTgt
                /\ GridStored
        /\ NEst > NTgt => ret.kind = "error" /\ ret.err = "IndexError"
        /\ NEst < NTgt =>
                /\ ret.kind = "matrix"
                /\ \A b \in 1..Batch : Len(pw_losses.data[b]) = NTgt
                /\ ret.tensor = (0..(NEst - 1)) \X (0..(NTgt - 1))

\* C10 witness: two rows, two estimates, two targets, all entries written.
C10_Witness ==
    /\ op.method = "get_pw_losses"
    /\ Batch = 1 /\ NEst = 3 /\ NTgt = 3
    /\ ret.kind = "matrix"
    /\ Len(calls) = 9
    /\ pw_losses.data[1] = <<<<1, 0, 1>>, <<0, 1, 0>>, <<1, 0, 1>>>>

(***************************************************************************)
(* Specification SpecGradient: the matching search, called directly and    *)
(* through find_best_perm, on batches of square matrices whose entries are *)
(* MaxLoss except at most MaxGradLow entries, which are 0.                 *)
(***************************************************************************)
GradShapes ==
    {x \in (1..MaxBatch) \X (1..(FactorialMax + 1)) : x[1] * x[2] * x[2] <= MaxGradCells}

GradLowSets(B, n) ==
    {S \in SUBSET ((1..B) \X (1..n) \X (1..n)) : Cardinality(S) <= MaxGradLow}

GradMatrices ==
    UNION {{[b \in 1..x[1] |-> [i \in 1..x[2] |-> [j \in 1..x[2] |->
                IF <<b, i, j>> \in S THEN 0 ELSE MaxLoss]]] : S \in GradLowSets(x[1], x[2])} :
            x \in GradShapes}

InitGradient ==
    /\ wrapper = NoWrapper
    /\ est_targets = <<>>
    /\ targets = <<>>
    /\ pw_losses \in {Tensor(3, Len(d), d) : d \in GradMatrices}
    /\ op = Idle
    /\ search = NoSearch
    /\ ret = NoRet
    /\ calls = <<>>

NextGradient ==
    \/ CallFindBestPermHungarian
    \/ CallFindBestPerm

SpecGradient == InitGradient /\ [][NextGradient]_vars

(***************************************************************************)
(* Properties of the matching path's loss as a function of the caller's    *)
(* matrix.                                                                 *)
(***************************************************************************)
\* the matrix with d added to entry [b, i, j] (i, j counted from 0)
Perturb(pw, b, i, j, d) ==
    Strict([x \in 1..Len(pw) |-> Strict([y \in 1..Len(pw[x]) |->
        Strict([z \in 1..Len(pw[x][y]) |->
            IF x = b /\ y = i + 1 /\ z = j + 1 THEN pw[x][y][z] + d ELSE pw[x][y][z]])])])

\* entry [b, i, j] is one of the n_src entries the returned assignment picks
Winning(batch_indices, b, i, j) == batch_indices[b][j + 1] = i

\* loss + d / n_src
FracPlus(loss, d, n_src) == Frac(loss.num * n_src + d * loss.den, loss.den * n_src)

\* C11: on the matching path the returned loss of a row depends on the
\* caller's matrix only through that row's n_src winning entries.  With the
\* indices chosen on the detached copy, adding d to a winning entry of the
\* attached matrix raises that row's loss by d / n_src and leaves the other
\* rows alone, adding d to a non-winning entry changes no loss; and a second
\* search on the perturbed matrix that returns the same assignment returns
\* exactly those losses.
C11_LossFollowsWinningEntries ==
    (search.algo = "hungarian" /\ search.err = "") =>
        \A b \in Rows, i \in 0..(NSrc - 1), j \in 0..(NSrc - 1), d \in 1..MaxDelta :
            LET moved == Perturb(pw_losses.data, b, i, j, d)
                expected(x) ==
                    IF x = b /\ Winning(search.batch_indices, b, i, j)
                    THEN FracPlus(search.min_loss[x], d, NSrc)
                    ELSE search.min_loss[x]
                attached == HungarianMinLoss(Pwl(moved), HungarianCost(pw_losses.data),
                                             search.batch_indices)
            IN  /\ \A x \in Rows : FracEq(attached[x], expected(x))
                /\ search.batch_indices \in HungarianIndices(HungarianCost(moved)) =>
                        LET again == HungarianMinLoss(Pwl(moved), HungarianCost(moved),
                                                      search.batch_indices)
                        IN  \A x \in Rows : FracEq(again[x], expected(x))

\* C11 witness: the matching search on a 3 x 3 matrix returned <<1, 0, 2>>, the
\* only optimum.  With 1 added to the winning entry [1, 0] a second search may
\* return the same assignment, its loss 1/3 higher, or another one; with
\* MaxDelta added to the non-winning entry [0, 0] a second search returns the
\* same assignment and the same loss.
C11_Witness ==
    /\ op.method = "find_best_perm_hungarian"
    /\ NSrc = 3
    /\ search.batch_indices = <<(<<1, 0, 2>>)>>
    /\ \E again \in FindBestPermHungarian(Perturb(pw_losses.data, 1, 1, 0, 1)) :
            /\ again.batch_indices = search.batch_indices
            /\ FracEq(again.min_loss[1], FracPlus(search.min_loss[1], 1, 3))
    /\ \E again \in FindBestPermHungarian(Perturb(pw_losses.data, 1, 1, 0, 1)) :
            again.batch_indices # search.batch_indices
    /\ \A again \in FindBestPermHungarian(Perturb(pw_losses.data, 1, 0, 0, MaxDelta)) :
            /\ again.batch_indices = search.batch_indices
            /\ FracEq(again.min_loss[1], search.min_loss[1])

(***************************************************************************)
(* Specification SpecPartition: the two partition engines on batches of    *)
(* estimates and mixtures, several rows included.                          *)
(***************************************************************************)
PartShapes ==
    {x \in (1..MaxBatch) \X (1..MaxSrc) \X (1..MaxMix) :
        /\ x[1] * x[2] <= MaxPartEst
        /\ x[1] * x[3] <= MaxPartTgt}

InitPartition ==
    /\ \E x \in PartShapes :
        /\ est_targets \in Signals(x[1], x[2])
        /\ targets \in Signals(x[1], x[3])
    /\ wrapper = NoWrapper
    /\ pw_losses = NoTensor
    /\ op = Idle
    /\ search = NoSearch
    /\ ret = NoRet
    /\ calls = <<>>

NextPartition ==
    \/ CallBestPartMixIt
    \/ CallBestPartMixItGeneralized

SpecPartition == InitPartition /\ [][NextPartition]_vars

\* the sum of row b's estimate sources over one group of indices
GroupSum(b, group) ==
    SumSeq(Strict([k \in 1..Len(group) |-> est_targets[b][group[k] + 1]]))

\* row b's group sums under a candidate partition
GroupSums(b, partition) ==
    Strict([g \in 1..Len(partition) |-> GroupSum(b, partition[g])])

\* the callback's loss of row b for a tensor row of mixtures
RowLoss(b, mixes) ==
    Frac(SumSeq(Strict([g \in 1..NTgt |-> Sq(mixes[g], targets[b][g])])), NTgt)

\* C12: in both partition engines, for every batch row the returned minimal
\* loss is the minimum of the callback's loss of that row over all candidates
\* evaluated, the returned row is the row's group sums under a candidate that
\* attains it (each row its own), and the callback evaluated on the returned
\* tensor gives each row's minimal loss again.
C12_RowArgmin ==
    (op.method \in {"best_part_mix_it", "best_part_mix_it_generalized"}
        /\ ret.kind = "pair") =>
        /\ Len(ret.tensor.min_loss) = Batch
        /\ Len(ret.tensor.ordered) = Batch
        /\ \A b \in 1..Batch :
            LET min_loss == ret.tensor.min_loss[b]
                ordered == ret.tensor.ordered[b]
            IN  /\ \A p \in 1..Len(calls) :
                        ~FracLess(RowLoss(b, GroupSums(b, calls[p])), min_loss)
                /\ \E p \in 1..Len(calls) :
                        /\ FracEq(RowLoss(b, GroupSums(b, calls[p])), min_loss)
                        /\ ordered = GroupSums(b, calls[p])
                /\ FracEq(MultiLoss(ret.tensor.ordered, targets)[b], min_loss)

\* C12 witness: the equal-size engine on two rows with the same estimates and
\* swapped mixtures: row 0 wins with [[0], [1]], row 1 with [[1], [0]].
C12_Witness ==
    /\ op.method = "best_part_mix_it"
    /\ est_targets = <<(<<0, 1>>), (<<0, 1>>)>>
    /\ targets = <<(<<0, 1>>), (<<1, 0>>)>>
    /\ ret.tensor.ordered = <<(<<0, 1>>), (<<1, 0>>)>>
    /\ ret.tensor.min_loss = <<Frac(0, 2), Frac(0, 2)>>

(***************************************************************************)
(* Specification SpecReorder: forward in the three permutation modes on    *)
(* arbitrary signals, as many estimates as targets, up to the first source *)
(* count that find_best_perm hands to the matching search.                 *)
(***************************************************************************)
ReorderShapes ==
    {x \in (1..MaxBatch) \X (1..(FactorialMax + 1)) : x[1] * x[2] <= MaxReorder}

InitReorder ==
    /\ \E x \in ReorderShapes :
        /\ est_targets \in Signals(x[1], x[2])
        /\ targets \in Signals(x[1], x[2])
    /\ wrapper = NoWrapper
    /\ pw_losses = NoTensor
    /\ op = Idle
    /\ search = NoSearch
    /\ ret = NoRet
    /\ calls = <<>>

NextReorder ==
    \/ ConstructPermutation
    \/ CallForward

SpecReorder == InitReorder /\ [][NextReorder]_vars

\* estimates[b, p[k]] for every k
Reordered(b, p) == Strict([k \in 1..Len(p) |-> est_targets[b][p[k] + 1]])

\* the pairwise loss between reordered[b, k] and reference k, for every k
IdentityLosses(b, p) ==
    Strict([k \in 1..Len(p) |-> Sq(Reordered(b, p)[k], targets[b][k])])

\* forward returned a loss
Returned == op.method = "forward" /\ ret.kind \in {"loss", "pair"}

\* the call used a supplied reduction (perm_avg never does)
Reduced == wrapper.pit_from \in {"pw_mtx", "pw_pt"} /\ wrapper.perm_reduce # "None"

\* the index convention alone: a bijection per row, and the returned tensor
\* is estimates[b, p_b[k]]
OneConvention ==
    \A b \in 1..Batch :
        /\ search.batch_indices[b] \in Bijections(NTgt)
        /\ ret.kind = "pair" => ret.tensor[b] = Reordered(b, search.batch_indices[b])

\* C13 (as claimed): the returned permutation of every row is a bijection,
\* reordered[b, k] = estimates[b, p_b[k]], and the mean over k of the pairwise
\* loss between reordered[b, k] and reference k is the returned minimal loss
\* of the row, on the factorial path, the matching path and in perm_avg.
C13_MeanOfReordered ==
    Returned =>
        /\ OneConvention
        /\ \A b \in 1..Batch :
                FracEq(search.min_loss[b],
                       Frac(SumSeq(IdentityLosses(b, search.batch_indices[b])), NTgt))

\* C13 (amended): the same, the mean being the returned loss when no
\* reduction is used; with a reduction supplied in a pairwise mode the
\* returned loss of the row is that reduction of the same n_src losses.
C13_ReductionOfReordered ==
    Returned =>
        /\ OneConvention
        /\ \A b \in 1..Batch :
            LET losses == IdentityLosses(b, search.batch_indices[b])
            IN  IF Reduced
                THEN FracEq(search.min_loss[b], Frac(MaxSeq(losses), 1))
                ELSE FracEq(search.min_loss[b], Frac(SumSeq(losses), NTgt))

\* C13 witness: four sources in the mode pw_pt without a reduction: the
\* matching search returned <<1, 0, 2, 3>> with loss 2/4 and forward returned
\* the estimates in that order.
C13_Witness ==
    /\ Returned
    /\ wrapper.pit_from = "pw_pt"
    /\ search.algo = "hungarian"
    /\ est_targets = <<(<<0, 1, 1, 1>>)>>
    /\ targets = <<(<<1, 0, 0, 0>>)>>
    /\ search.batch_indices = <<(<<1, 0, 2, 3>>)>>
    /\ search.min_loss = <<Frac(2, 4)>>
    /\ ret.kind = "pair"
    /\ ret.tensor = <<(<<1, 0, 1, 1>>)>>

====
